---------------------------- MODULE Spec2Model ----------------------------
(***************************************************************************)
(* The windowing / surface / render-loop bridge of the two entry points    *)
(* main.ts (imperative loop) and r3f.tsx (declarative loop driven by a     *)
(* post-render hook).  One behaviour is one run of one entry point on one   *)
(* build OS, from the library load to the end of the process.  The native   *)
(* library, the GPU backend, the file system, the event source and the      *)
(* frame scheduler of the reactive layer are the environment: every result  *)
(* they can hand back is a nondeterministic input of the step that asks.    *)
(***************************************************************************)
EXTENDS Integers, Sequences, FiniteSets, TLC

VARIABLES
    mode,            \* "main" (main.ts) or "r3f" (r3f.tsx)
    os,              \* BUILD_OS
    pc,              \* position of the top-level module code
    fsExisting,      \* paths Deno.statSync finds, while the library is resolved
    libPath,         \* value returned by resolveSdl2Library (a temporary)
    probed,          \* the paths statSync was called on, in order
    initDone,        \* SDL_Init was called
    initResult,      \* its status
    adapter,         \* requestAdapter returned an adapter
    device,          \* requestDevice returned a device
    window,          \* raw window pointer (NULL = 0)
    metalView,       \* SDL_Metal_CreateView result (NULL = 0)
    wmQueried,       \* SDL_GetWindowWMInfo was called
    wmOk,            \* its result
    wmInfoBuf,       \* the window-manager-info record, by byte offset
    surface,         \* the Deno.UnsafeWindowSurface options, or NoSurface
    nResize,         \* surface.resize calls
    nConfigure,      \* context.configure calls
    rendererReady,   \* renderer.init / root.configure completed
    hookRegistered,  \* addAfterEffect ran (r3f.tsx only)
    declared,        \* `let running = true` was executed
    running,         \* the loop flag
    queue,           \* the native event queue (type discriminants)
    enqueued,        \* events the environment has queued so far
    eventBuf,        \* the event record, by byte offset
    passStart,       \* the queue as it was when the current drain pass began
    passTrace,       \* what the loop did since the current drain pass began
    framesThisSleep, \* frame callbacks run during the current sleep (r3f.tsx)
    shutdownCalls,   \* destroy-window / library-quit calls, in order
    exitCode,        \* process exit status (NoExit while running)
    failure,         \* the uncaught error that ended the process, or "none"
    stops,           \* number of times running went from true to false
    stopCause,       \* what made running false first
    quitSeen,        \* a quit event was dequeued
    loopEntered,     \* the event/render loop was entered
    presentFailed,   \* a present call threw
    presentAfterFail,\* present was called after a present had thrown
    lateRender,      \* a render happened after a quit event was dequeued
    latePresent      \* a present happened after a quit event was dequeued

envVars == <<mode, os>>
loadVars == <<fsExisting, libPath, probed>>
startVars == <<initDone, initResult, adapter, device, window, metalView,
               wmQueried, wmOk, wmInfoBuf, surface, nResize, nConfigure,
               rendererReady, hookRegistered>>
loopVars == <<declared, running, eventBuf, passStart, passTrace,
              framesThisSleep, stops, stopCause, quitSeen, loopEntered,
              presentFailed, presentAfterFail, lateRender, latePresent>>
queueVars == <<queue, enqueued>>
endVars == <<shutdownCalls, exitCode, failure>>
vars == <<envVars, pc, loadVars, startVars, loopVars, queueVars, endVars>>

---------------------------------------------------------------------------
(* Bounds of the model *)

\* events the environment queues during one run
MaxEvents == 3

---------------------------------------------------------------------------
(* Program constants *)

SDL_QUIT == 256
SDL_SYSWM_WINDOWS == 1
SDL_SYSWM_X11 == 2
SDL_SYSWM_COCOA == 4
SDL_SYSWM_WAYLAND == 6
SDL_SYSWM_WINRT == 8
\* delay of the requestAnimationFrame polyfill's timer, in ms
RafDelay == 16
\* delay of the loop's sleep timer, in ms
SleepDelay == 1

NULL == 0
\* exit status of a process that has not ended
NoExit == 0 - 1

Modes == {"main", "r3f"}
\* Deno.build.os: the three supported targets and one that is not
BuildOses == {"darwin", "windows", "linux", "freebsd"}

\* the ordered candidate list of resolveSdl2Library
Candidates ==
    << "/opt/homebrew/opt/sdl2/lib/libSDL2.dylib",
       "/opt/homebrew/lib/libSDL2.dylib",
       "/usr/local/opt/sdl2/lib/libSDL2.dylib",
       "/usr/local/lib/libSDL2.dylib",
       "SDL2" >>

CandidateSet == {Candidates[i] : i \in 1..Len(Candidates)}

\* byte offsets read from the window-manager-info record
OffSubsystem == 4
OffFirst == 4 + 4
OffLinuxSurface == 4 + 4 + 8
OffHinstance == 4 + 4 + 8 + 8
WmOffsets == {OffSubsystem, OffFirst, OffLinuxSurface, OffHinstance}

\* byte offsets of the event record: the type and the timestamp after it
OffEventType == 0
EventOffsets == {0, 4}

---------------------------------------------------------------------------
(* Inputs the environment can produce *)

\* event type discriminants: quit and mouse motion (0x400)
EventTypes == {SDL_QUIT, 1024}
\* the u32 after the type (a timestamp): values that can pass for a type; a
\* synthetic record holds one that differs from its type
Timestamps == {SDL_QUIT, 1024}

\* subsystem discriminants SDL can report: unknown, and the five named ones
Subsystems == {0, SDL_SYSWM_WINDOWS, SDL_SYSWM_X11, SDL_SYSWM_COCOA,
               SDL_SYSWM_WAYLAND, SDL_SYSWM_WINRT}

\* non-null pointers SDL_CreateWindow / SDL_Metal_CreateView can return
WindowHandles == {4096}
MetalViews == {NULL, 20480}

\* two synthetic layouts of the pointer-sized fields of the info union
PointerLayouts ==
    { [o \in WmOffsets \ {OffSubsystem} |->
         IF o = OffFirst THEN 8192 ELSE IF o = OffLinuxSurface THEN 12288 ELSE 16384],
      [o \in WmOffsets \ {OffSubsystem} |->
         IF o = OffFirst THEN 16384 ELSE IF o = OffLinuxSurface THEN 8192 ELSE 12288] }

WmBuffers ==
    { [o \in WmOffsets |-> IF o = OffSubsystem THEN s ELSE p[o]] :
        s \in Subsystems, p \in PointerLayouts }

ZeroWmBuf == [o \in WmOffsets |-> 0]
ZeroEventBuf == [o \in EventOffsets |-> 0]

NoSurface == [system |-> "none", windowHandle |-> NULL, displayHandle |-> NULL]

---------------------------------------------------------------------------
(* Pure functions of the program *)

\* a probe loop that keeps going after a hit: the last existing candidate wins
ProbeFromLast(fs, i) ==
    LET hits == {j \in i..Len(Candidates) : Candidates[j] \in fs}
    IN  IF hits = {} THEN [path |-> "SDL2", probes |-> Len(Candidates)]
        ELSE [path |-> Candidates[CHOOSE j \in hits : \A k \in hits : k <= j],
              probes |-> Len(Candidates)]

\* the `for (const candidate of candidates)` loop from index i on: the first
\* candidate statSync finds, and how many candidates were probed
RECURSIVE ProbeFrom(_, _)
ProbeFrom(fs, i) ==
    IF i > Len(Candidates)
    THEN [path |-> "SDL2", probes |-> Len(Candidates)]
    ELSE IF Candidates[i] \in fs
         THEN [path |-> Candidates[i], probes |-> i]
         ELSE ProbeFrom(fs, i + 1)

\* resolveSdl2Library(), given BUILD_OS and the paths that exist
resolveSdl2Library(buildOs, fs) ==
    IF buildOs # "darwin"
    THEN [path |-> "SDL2", probes |-> 0]
    ELSE ProbeFrom(fs, 1)

\* Deno.UnsafePointerView.getUint32 / getPointer at a byte offset
getUint32(buf, off) == buf[off]
getPointer(buf, off) == buf[off]

Threw(kind) == [err |-> kind, surface |-> NoSurface]
Returned(sys, wh, dh) ==
    [err |-> "none",
     surface |-> [system |-> sys, windowHandle |-> wh, displayHandle |-> dh]]

\* a Linux branch that hands the two handles over in each other's place
LinuxSurfaceSwapped(buf) ==
    LET subsystem == getUint32(buf, OffSubsystem)
        display == getPointer(buf, OffFirst)
        surf == getPointer(buf, OffLinuxSurface)
    IN  IF subsystem = SDL_SYSWM_X11 THEN Returned("x11", display, surf)
        ELSE IF subsystem = SDL_SYSWM_WAYLAND THEN Returned("wayland", display, surf)
        ELSE Threw("subsystem")

\* the Linux branch, the same text in both entry points
LinuxSurface(buf) ==
    LET subsystem == getUint32(buf, OffSubsystem)
        display == getPointer(buf, OffFirst)
        surf == getPointer(buf, OffLinuxSurface)
    IN  IF subsystem = SDL_SYSWM_X11 THEN Returned("x11", surf, display)
        ELSE IF subsystem = SDL_SYSWM_WAYLAND THEN Returned("wayland", surf, display)
        ELSE Threw("subsystem")

\* createSurface of main.ts after the version was written: ok is the result
\* of SDL_GetWindowWMInfo, buf the record it left, mv the metal view
createSurfaceMain(buildOs, ok, buf, mv) ==
    LET subsystem == getUint32(buf, OffSubsystem)
    IN  IF ok = 0 THEN Threw("wminfo")
        ELSE IF buildOs = "darwin"
        THEN IF subsystem # SDL_SYSWM_COCOA THEN Threw("subsystem")
             ELSE Returned("cocoa", getPointer(buf, OffFirst), mv)
        ELSE IF buildOs = "windows"
        THEN IF subsystem = SDL_SYSWM_WINDOWS
             THEN Returned("win32", getPointer(buf, OffFirst), getPointer(buf, OffHinstance))
             ELSE Threw("subsystem")
        ELSE IF buildOs = "linux" THEN LinuxSurface(buf)
        ELSE Threw("platform")

\* createSurface of r3f.tsx: the macOS and Windows branches read no discriminant
createSurfaceR3f(buildOs, ok, buf, mv) ==
    IF ok = 0 THEN Threw("wminfo")
    ELSE IF buildOs = "darwin"
    THEN Returned("cocoa", getPointer(buf, OffFirst), mv)
    ELSE IF buildOs = "windows"
    THEN Returned("win32", getPointer(buf, OffFirst), getPointer(buf, OffHinstance))
    ELSE IF buildOs = "linux" THEN LinuxSurface(buf)
    ELSE Threw("platform")

createSurface(m, buildOs, ok, buf, mv) ==
    IF m = "main" THEN createSurfaceMain(buildOs, ok, buf, mv)
    ELSE createSurfaceR3f(buildOs, ok, buf, mv)

\* `if (initResult !== 0) throw` exists in main.ts only
InitFails(m, r) == m = "main" /\ r # 0
\* `if (!adapter) throw`
AdapterFails(a) == ~a
\* a createWindow that does not look at the pointer it got
WindowCreationNeverFails(raw) == FALSE
\* `if (raw === null) throw`
WindowCreationFails(raw) == raw = NULL
\* a test that takes every event for a quit event
IsQuitAnyEvent(type) == type # 0
\* `type === SDL_QUIT`
IsQuit(type) == type = SDL_QUIT

\* the status the process ends with when the module runs to its end
\* (main.ts) or calls Deno.exit(0) (r3f.tsx)
ExitStatus(m) == 0
\* the status Deno ends with on an uncaught error of the top-level module
UncaughtStatus(kind) == 1

\* a declarative loop that goes back to its test without sleeping
AfterDrainNoSleep(m) == IF m = "main" THEN "render" ELSE "loop"

\* where the loop body goes after the event drain: main.ts renders and
\* presents, r3f.tsx sleeps
AfterDrain(m) == IF m = "main" THEN "render" ELSE "yield"

\* a drain that takes one event per iteration (`if` for the inner `while`)
AfterEventOnePerPass(m, quit) == AfterDrain(m)

\* a drain without the `break`: it polls on after a quit event
AfterEventNoBreak(m, quit) == "poll"

\* where the inner `while (SDL_PollEvent(event) === 1)` goes after an event:
\* `break` on a quit event, the next poll otherwise
AfterEvent(m, quit) == IF quit THEN AfterDrain(m) ELSE "poll"

\* a shutdown with a suspension point after destroy-window
AtAwaitAfterDestroy(p) == p \in {"sleep", "quit"}
\* a startup with a suspension point between the registration of the
\* after-effect and the declaration of the flag
AtAwaitBeforeDeclare(p) == p \in {"sleep", "declare"}

\* the positions at which the top-level code of r3f.tsx is suspended once the
\* after-effect is registered, so that timer callbacks can run: the loop's
\* `await new Promise(r => setTimeout(r, 1))` and nothing else
AtAwait(p) == p = "sleep"

\* A frame callback of the reactive layer is a timer of RafDelay ms, re-armed
\* by each callback; the loop's sleep is a timer of SleepDelay ms.  After k
\* callbacks in one sleep the next one is due k * RafDelay after the first.
FrameCanFire(k) == k * RafDelay < SleepDelay

---------------------------------------------------------------------------
(* Initial state: the module starts to run *)

Init ==
    /\ mode \in Modes
    /\ os \in BuildOses
    /\ pc = "resolve"
    /\ fsExisting = {}
    /\ libPath = ""
    /\ probed = <<>>
    /\ initDone = FALSE
    /\ initResult = 0
    /\ adapter = FALSE
    /\ device = FALSE
    /\ window = NULL
    /\ metalView = NULL
    /\ wmQueried = FALSE
    /\ wmOk = 0
    /\ wmInfoBuf = ZeroWmBuf
    /\ surface = NoSurface
    /\ nResize = 0
    /\ nConfigure = 0
    /\ rendererReady = FALSE
    /\ hookRegistered = FALSE
    /\ declared = FALSE
    /\ running = FALSE
    /\ queue = <<>>
    /\ enqueued = 0
    /\ eventBuf = ZeroEventBuf
    /\ passStart = <<>>
    /\ passTrace = <<>>
    /\ framesThisSleep = 0
    /\ shutdownCalls = <<>>
    /\ exitCode = NoExit
    /\ failure = "none"
    /\ stops = 0
    /\ stopCause = "none"
    /\ quitSeen = FALSE
    /\ loopEntered = FALSE
    /\ presentFailed = FALSE
    /\ presentAfterFail = FALSE
    /\ lateRender = FALSE
    /\ latePresent = FALSE

\* an error nothing catches: the top-level module rejects and the process ends
Uncaught(kind) ==
    /\ pc' = "exited"
    /\ exitCode' = UncaughtStatus(kind)
    /\ failure' = kind
    /\ UNCHANGED shutdownCalls

\* `running = false`, with its history
Stop(cause) ==
    /\ running' = FALSE
    /\ stops' = IF running THEN stops + 1 ELSE stops
    /\ stopCause' = IF stopCause = "none" THEN cause ELSE stopCause

---------------------------------------------------------------------------
(* Startup *)

\* resolveSdl2Library() is evaluated as the argument of Deno.dlopen
ResolveLibrary ==
    /\ pc = "resolve"
    /\ \E fs \in SUBSET CandidateSet :
         LET r == resolveSdl2Library(os, fs)
         IN  /\ fsExisting' = fs
             /\ libPath' = r.path
             /\ probed' = SubSeq(Candidates, 1, r.probes)
    /\ pc' = "dlopen"
    /\ UNCHANGED <<envVars, startVars, loopVars, queueVars, endVars>>

\* Deno.dlopen(path, symbols): throws when the library cannot be opened
DlOpen ==
    /\ pc = "dlopen"
    /\ fsExisting' = {}
    /\ libPath' = ""
    /\ probed' = <<>>
    /\ \E ok \in BOOLEAN :
         IF ok THEN pc' = "init" /\ UNCHANGED endVars
         ELSE Uncaught("load")
    /\ UNCHANGED <<envVars, startVars, loopVars, queueVars>>

\* sdl2.symbols.SDL_Init(SDL_INIT_VIDEO)
SdlInit ==
    /\ pc = "init"
    /\ \E r \in {0, 0 - 1} :
         /\ initDone' = TRUE
         /\ initResult' = r
         /\ IF InitFails(mode, r) THEN Uncaught("init")
            ELSE pc' = "adapter" /\ UNCHANGED endVars
    /\ UNCHANGED <<envVars, loadVars, adapter, device, window, metalView,
                   wmQueried, wmOk, wmInfoBuf, surface, nResize, nConfigure,
                   rendererReady, hookRegistered, loopVars, queueVars>>

\* await navigator.gpu.requestAdapter()
RequestAdapter ==
    /\ pc = "adapter"
    /\ \E a \in BOOLEAN :
         /\ adapter' = a
         /\ IF AdapterFails(a) THEN Uncaught("adapter")
            ELSE pc' = "device" /\ UNCHANGED endVars
    /\ UNCHANGED <<envVars, loadVars, initDone, initResult, device, window,
                   metalView, wmQueried, wmOk, wmInfoBuf, surface, nResize,
                   nConfigure, rendererReady, hookRegistered, loopVars, queueVars>>

\* await adapter.requestDevice(): rejects when no device can be had
RequestDevice ==
    /\ pc = "device"
    /\ \E d \in BOOLEAN :
         /\ device' = d
         /\ IF d THEN pc' = "createWindow" /\ UNCHANGED endVars
            ELSE Uncaught("device")
    /\ UNCHANGED <<envVars, loadVars, initDone, initResult, adapter, window,
                   metalView, wmQueried, wmOk, wmInfoBuf, surface, nResize,
                   nConfigure, rendererReady, hookRegistered, loopVars, queueVars>>

\* createWindow(title, WIDTH, HEIGHT)
CreateWindow ==
    /\ pc = "createWindow"
    /\ \E raw \in {NULL} \cup WindowHandles, mv \in MetalViews :
         /\ window' = raw
         /\ IF WindowCreationFails(raw)
            THEN metalView' = NULL /\ Uncaught("window")
            ELSE /\ metalView' = IF os = "darwin" THEN mv ELSE NULL
                 /\ pc' = "createSurface"
                 /\ UNCHANGED endVars
    /\ UNCHANGED <<envVars, loadVars, initDone, initResult, adapter, device,
                   wmQueried, wmOk, wmInfoBuf, surface, nResize, nConfigure,
                   rendererReady, hookRegistered, loopVars, queueVars>>

\* createSurface(window, metalView, WIDTH, HEIGHT)
CreateSurface ==
    /\ pc = "createSurface"
    /\ \E ok \in {0, 1}, buf \in WmBuffers :
         LET filled == IF ok = 1 THEN buf ELSE wmInfoBuf
             r == createSurface(mode, os, ok, filled, metalView)
         IN  /\ wmQueried' = TRUE
             /\ wmOk' = ok
             /\ wmInfoBuf' = filled
             /\ surface' = r.surface
             /\ IF r.err # "none" THEN Uncaught(r.err)
                ELSE pc' = "resize" /\ UNCHANGED endVars
    /\ UNCHANGED <<envVars, loadVars, initDone, initResult, adapter, device,
                   window, metalView, nResize, nConfigure, rendererReady,
                   hookRegistered, loopVars, queueVars>>

\* a startup that goes on to configure without the resize call
ResizeSkipped ==
    /\ pc = "resize"
    /\ pc' = "configure"
    /\ UNCHANGED <<envVars, loadVars, startVars, loopVars, queueVars, endVars>>

\* surface.resize(WIDTH, HEIGHT)
Resize ==
    /\ pc = "resize"
    /\ nResize' = nResize + 1
    /\ pc' = "configure"
    /\ UNCHANGED <<envVars, loadVars, initDone, initResult, adapter, device,
                   window, metalView, wmQueried, wmOk, wmInfoBuf, surface,
                   nConfigure, rendererReady, hookRegistered, loopVars,
                   queueVars, endVars>>

\* context.configure({device, format, alphaMode, usage})
Configure ==
    /\ pc = "configure"
    /\ nConfigure' = nConfigure + 1
    /\ pc' = "rendererInit"
    /\ UNCHANGED <<envVars, loadVars, initDone, initResult, adapter, device,
                   window, metalView, wmQueried, wmOk, wmInfoBuf, surface,
                   nResize, rendererReady, hookRegistered, loopVars,
                   queueVars, endVars>>

\* await renderer.init() (main.ts) / await root.configure({gl}) (r3f.tsx)
RendererInit ==
    /\ pc = "rendererInit"
    /\ rendererReady' = TRUE
    /\ pc' = IF mode = "main" THEN "declare" ELSE "hook"
    /\ UNCHANGED <<envVars, loadVars, initDone, initResult, adapter, device,
                   window, metalView, wmQueried, wmOk, wmInfoBuf, surface,
                   nResize, nConfigure, hookRegistered, loopVars, queueVars,
                   endVars>>

\* addAfterEffect(presenter); root.render(<App />)  (r3f.tsx)
RegisterHook ==
    /\ pc = "hook"
    /\ hookRegistered' = TRUE
    /\ pc' = "declare"
    /\ UNCHANGED <<envVars, loadVars, initDone, initResult, adapter, device,
                   window, metalView, wmQueried, wmOk, wmInfoBuf, surface,
                   nResize, nConfigure, rendererReady, loopVars, queueVars,
                   endVars>>

\* let running = true
DeclareRunning ==
    /\ pc = "declare"
    /\ declared' = TRUE
    /\ running' = TRUE
    /\ pc' = "loop"
    /\ UNCHANGED <<envVars, loadVars, startVars, eventBuf, passStart,
                   passTrace, framesThisSleep, stops, stopCause, quitSeen,
                   loopEntered, presentFailed, presentAfterFail, lateRender,
                   latePresent, queueVars, endVars>>

---------------------------------------------------------------------------
(* The event/render loop *)

\* while (running): the loop test; a true test begins a drain pass
LoopCheck ==
    /\ pc = "loop"
    /\ IF running
       THEN /\ pc' = "poll"
            /\ passStart' = queue
            /\ passTrace' = <<>>
            /\ loopEntered' = TRUE
       ELSE /\ pc' = "destroy"
            /\ UNCHANGED <<passStart, passTrace, loopEntered>>
    /\ UNCHANGED <<envVars, loadVars, startVars, declared, running, eventBuf,
                   framesThisSleep, stops, stopCause, quitSeen, presentFailed,
                   presentAfterFail, lateRender, latePresent, queueVars, endVars>>

\* one SDL_PollEvent(event) call that returns, and the body run on its result
Poll ==
    /\ pc = "poll"
    /\ IF queue = <<>>
       THEN /\ pc' = AfterDrain(mode)
            /\ passTrace' = Append(passTrace, "empty")
            /\ UNCHANGED <<eventBuf, queue, running, stops, stopCause, quitSeen>>
       ELSE \E ts \in Timestamps \ {Head(queue)} :
            LET rec == [o \in EventOffsets |->
                          IF o = OffEventType THEN Head(queue) ELSE ts]
                type == getUint32(rec, OffEventType)
            IN  /\ eventBuf' = rec
                /\ queue' = Tail(queue)
                /\ IF IsQuit(type)
                   THEN /\ Stop("quit")
                        /\ quitSeen' = TRUE
                        /\ passTrace' = Append(passTrace, "quit")
                        /\ pc' = AfterEvent(mode, TRUE)
                   ELSE /\ passTrace' = Append(passTrace, "event")
                        /\ pc' = AfterEvent(mode, FALSE)
                        /\ UNCHANGED <<running, stops, stopCause, quitSeen>>
    /\ UNCHANGED <<envVars, loadVars, startVars, declared, passStart,
                   framesThisSleep, loopEntered, presentFailed,
                   presentAfterFail, lateRender, latePresent, enqueued, endVars>>

\* an SDL_PollEvent call that throws: nothing catches it in main.ts, the
\* loop's try/catch does in r3f.tsx
PollThrows ==
    /\ pc = "poll"
    /\ passTrace' = Append(passTrace, "pollThrow")
    /\ IF mode = "main"
       THEN /\ Uncaught("poll")
            /\ UNCHANGED <<running, stops, stopCause>>
       ELSE /\ Stop("pollError")
            /\ pc' = "yield"
            /\ UNCHANGED endVars
    /\ UNCHANGED <<envVars, loadVars, startVars, declared, eventBuf, passStart,
                   framesThisSleep, quitSeen, loopEntered, presentFailed,
                   presentAfterFail, lateRender, latePresent, queueVars>>

\* cube.rotation...; renderer.render(scene, camera)  (main.ts)
Render ==
    /\ pc = "render"
    /\ lateRender' = (lateRender \/ quitSeen)
    /\ \E ok \in BOOLEAN :
         IF ok
         THEN /\ passTrace' = Append(passTrace, "render")
              /\ pc' = "present"
              /\ UNCHANGED endVars
         ELSE /\ passTrace' = Append(passTrace, "renderThrow")
              /\ Uncaught("render")
    /\ UNCHANGED <<envVars, loadVars, startVars, declared, running, eventBuf,
                   passStart, framesThisSleep, stops, stopCause, quitSeen,
                   loopEntered, presentFailed, presentAfterFail, latePresent,
                   queueVars>>

\* surface.present(); frame++  (main.ts).  The frame counter only selects
\* which iterations print a log line and is not kept.
Present ==
    /\ pc = "present"
    /\ latePresent' = (latePresent \/ quitSeen)
    /\ presentAfterFail' = (presentAfterFail \/ presentFailed)
    /\ \E ok \in BOOLEAN :
         IF ok
         THEN /\ passTrace' = Append(passTrace, "present")
              /\ pc' = "loop"
              /\ UNCHANGED <<presentFailed, endVars>>
         ELSE /\ passTrace' = Append(passTrace, "presentThrow")
              /\ presentFailed' = TRUE
              /\ Uncaught("present")
    /\ UNCHANGED <<envVars, loadVars, startVars, declared, running, eventBuf,
                   passStart, framesThisSleep, stops, stopCause, quitSeen,
                   loopEntered, lateRender, queueVars>>

\* await new Promise(r => setTimeout(r, 1)): the sleep begins  (r3f.tsx)
Yield ==
    /\ pc = "yield"
    /\ passTrace' = Append(passTrace, "yield")
    /\ framesThisSleep' = 0
    /\ pc' = "sleep"
    /\ UNCHANGED <<envVars, loadVars, startVars, declared, running, eventBuf,
                   passStart, stops, stopCause, quitSeen, loopEntered,
                   presentFailed, presentAfterFail, lateRender, latePresent,
                   queueVars, endVars>>

\* a frame callback of the reactive layer, run from a timer while the loop
\* sleeps: it renders, then runs the registered after-effect, which presents.
\* An error of the render is caught by the polyfill's try/catch and skips the
\* after-effect; an error of present is caught by the after-effect.  (r3f.tsx)
Frame ==
    /\ AtAwait(pc)
    /\ hookRegistered
    /\ FrameCanFire(framesThisSleep)
    /\ framesThisSleep' = framesThisSleep + 1
    /\ lateRender' = (lateRender \/ quitSeen)
    /\ \E renderOk \in BOOLEAN, presentOk \in BOOLEAN :
         IF ~renderOk
         THEN /\ passTrace' = Append(passTrace, "renderThrow")
              /\ UNCHANGED <<running, stops, stopCause, presentFailed,
                             presentAfterFail, latePresent>>
         ELSE /\ latePresent' = (latePresent \/ quitSeen)
              /\ presentAfterFail' = (presentAfterFail \/ presentFailed)
              /\ IF presentOk
                 THEN /\ passTrace' = passTrace \o <<"render", "present">>
                      /\ UNCHANGED <<running, stops, stopCause, presentFailed>>
                 ELSE /\ passTrace' = passTrace \o <<"render", "presentThrow">>
                      /\ presentFailed' = TRUE
                      /\ Stop("presentError")
    /\ UNCHANGED <<envVars, pc, loadVars, startVars, declared, eventBuf,
                   passStart, quitSeen, loopEntered, queueVars, endVars>>

\* the sleep timer fires and the loop goes back to its test  (r3f.tsx)
Wake ==
    /\ pc = "sleep"
    /\ pc' = "loop"
    /\ UNCHANGED <<envVars, loadVars, startVars, loopVars, queueVars, endVars>>

---------------------------------------------------------------------------
(* Shutdown *)

\* sdl2.symbols.SDL_DestroyWindow(window)
DestroyWindow ==
    /\ pc = "destroy"
    /\ shutdownCalls' = Append(shutdownCalls, "destroy")
    /\ pc' = "quit"
    /\ UNCHANGED <<envVars, loadVars, startVars, loopVars, queueVars,
                   exitCode, failure>>

\* sdl2.symbols.SDL_Quit()
SdlQuit ==
    /\ pc = "quit"
    /\ shutdownCalls' = Append(shutdownCalls, "quit")
    /\ pc' = "exit"
    /\ UNCHANGED <<envVars, loadVars, startVars, loopVars, queueVars,
                   exitCode, failure>>

\* the module ends (main.ts) / Deno.exit(0) (r3f.tsx)
ProcessExit ==
    /\ pc = "exit"
    /\ exitCode' = ExitStatus(mode)
    /\ pc' = "exited"
    /\ UNCHANGED <<envVars, loadVars, startVars, loopVars, queueVars,
                   shutdownCalls, failure>>

---------------------------------------------------------------------------
(* Environment *)

\* the windowing system queues an event for the live window
Enqueue ==
    /\ window # NULL
    /\ pc \notin {"destroy", "quit", "exit", "exited"}
    /\ enqueued < MaxEvents
    /\ \E t \in EventTypes : queue' = Append(queue, t)
    /\ enqueued' = enqueued + 1
    /\ UNCHANGED <<envVars, pc, loadVars, startVars, loopVars, endVars>>

---------------------------------------------------------------------------

Next ==
    \/ ResolveLibrary
    \/ DlOpen
    \/ SdlInit
    \/ RequestAdapter
    \/ RequestDevice
    \/ CreateWindow
    \/ CreateSurface
    \/ Resize
    \/ Configure
    \/ RendererInit
    \/ RegisterHook
    \/ DeclareRunning
    \/ LoopCheck
    \/ Poll
    \/ PollThrows
    \/ Render
    \/ Present
    \/ Yield
    \/ Frame
    \/ Wake
    \/ DestroyWindow
    \/ SdlQuit
    \/ ProcessExit
    \/ Enqueue

Spec == Init /\ [][Next]_vars

---------------------------------------------------------------------------
(* Properties *)

Count(seq, x) == Cardinality({i \in DOMAIN seq : seq[i] = x})
Range(seq) == {seq[i] : i \in DOMAIN seq}
Shutdown == <<"destroy", "quit">>

\* C1: whenever the loop was entered and the process has ended - after a quit
\* event, a present that threw or any other error of the loop body - exactly
\* one destroy-window call was made and then exactly one library-quit call.
C1_ShutdownOnEveryLoopExit ==
    (pc = "exited" /\ loopEntered) => shutdownCalls = Shutdown

\* C2: once a present call has thrown, the error was caught (it is not what
\* ended the process), the loop flag is false, present is not called again,
\* and a process that has ended has run the shutdown.
C2_PresentFailureStopsLoop ==
    presentFailed =>
        /\ failure # "present"
        /\ running = FALSE
        /\ ~presentAfterFail
        /\ (pc = "exited" => shutdownCalls = Shutdown)

\* C3: no render and no present happens after a quit event was dequeued.
C3_NoFrameAfterQuit == ~lateRender /\ ~latePresent

HasQuit(q) == \E i \in DOMAIN q : q[i] = SDL_QUIT
\* the number of events in front of the first quit event of q
LeadingNonQuit(q) ==
    CHOOSE n \in 0..Len(q) :
        /\ \A i \in 1..n : q[i] # SDL_QUIT
        /\ (n = Len(q) \/ q[n + 1] = SDL_QUIT)

\* C4: when a drain pass begins with n non-quit events and then a quit event
\* in the queue and every poll call of the pass returns, the pass dequeues
\* the n events and then the quit event with nothing else in between (no
\* render, present or yield), and the flag goes from true to false once:
\* while the pass polls it has only dequeued some of the n events and the
\* loop is running, and after it the trace of the pass begins with the n
\* events and the quit event and the flag has stopped exactly once.
C4_DrainThenSingleStop ==
    (HasQuit(passStart) /\ "pollThrow" \notin Range(passTrace)) =>
        LET n == LeadingNonQuit(passStart)
        IN  IF pc = "poll"
            THEN /\ Len(passTrace) <= n
                 /\ Range(passTrace) \subseteq {"event"}
                 /\ running /\ stops = 0
            ELSE /\ Len(passTrace) >= n + 1
                 /\ \A i \in 1..n : passTrace[i] = "event"
                 /\ passTrace[n + 1] = "quit"
                 /\ ~running /\ stops = 1

\* a pass that began with two non-quit events and a quit event, and is over
C4_Witness ==
    /\ Len(passStart) = 3
    /\ LeadingNonQuit(passStart) = 2
    /\ HasQuit(passStart)
    /\ pc = "destroy"
    /\ Len(passTrace) >= 3
    /\ SubSeq(passTrace, 1, 3) = <<"event", "event", "quit">>
    /\ stops = 1

\* the (OS, subsystem discriminant) pairs the specification declares valid
ValidPair(o, s) ==
    \/ o = "darwin" /\ s = SDL_SYSWM_COCOA
    \/ o = "windows" /\ s = SDL_SYSWM_WINDOWS
    \/ o = "linux" /\ s \in {SDL_SYSWM_X11, SDL_SYSWM_WAYLAND}

\* C5: when the window-manager-info query succeeded and reported a
\* discriminant that is not valid for the build OS, createSurface threw and
\* constructed no surface.
C5_InvalidPairFails ==
    (wmQueried /\ wmOk = 1 /\ ~ValidPair(os, wmInfoBuf[OffSubsystem])) =>
        /\ surface = NoSurface
        /\ failure \in {"subsystem", "platform"}

\* the system the specification assigns to a pair, "none" for an invalid one
SystemOf(o, s) ==
    IF o = "darwin" /\ s = SDL_SYSWM_COCOA THEN "cocoa"
    ELSE IF o = "windows" /\ s = SDL_SYSWM_WINDOWS THEN "win32"
    ELSE IF o = "linux" /\ s = SDL_SYSWM_X11 THEN "x11"
    ELSE IF o = "linux" /\ s = SDL_SYSWM_WAYLAND THEN "wayland"
    ELSE "none"

\* C6: with a non-null window and a successful window-manager-info query the
\* system of the surface is the one of the pair (OS, discriminant): cocoa,
\* win32, x11, wayland for the four valid pairs, and no surface of any of
\* these systems for any other pair.
C6_SystemDeterminedByPair ==
    (window # NULL /\ wmQueried /\ wmOk = 1) =>
        surface.system = SystemOf(os, wmInfoBuf[OffSubsystem])

\* C7: resolveSdl2Library returns, on macOS, the first candidate in list
\* order that exists (having probed the list up to it), and the bare name
\* when none exists; on every other OS the bare name, with no probe.
C7_ResolveFirstExisting ==
    pc = "dlopen" =>
        LET hits == {i \in 1..Len(Candidates) : Candidates[i] \in fsExisting}
        IN  IF os # "darwin" THEN libPath = "SDL2" /\ probed = <<>>
            ELSE IF hits = {} THEN libPath = "SDL2" /\ probed = Candidates
            ELSE \E i \in hits :
                    /\ \A j \in hits : i <= j
                    /\ libPath = Candidates[i]
                    /\ probed = SubSeq(Candidates, 1, i)

\* on macOS only the third candidate exists, and it is what was resolved
C7_Witness ==
    /\ pc = "dlopen"
    /\ os = "darwin"
    /\ fsExisting = {Candidates[3]}
    /\ libPath = Candidates[3]

\* C8: a process that has ended has status 0 exactly when its loop ended
\* because a quit event was dequeued (and no error ended the run).
C8_ExitStatus ==
    pc = "exited" => (exitCode = 0 <=> (stopCause = "quit" /\ failure = "none"))

\* C9: when the process has ended, a window that was created was destroyed by
\* exactly one destroy-window call, a successful initialize was matched by
\* exactly one library-quit call, and neither call was made twice.
C9_NoLeakNoDoubleRelease ==
    pc = "exited" =>
        /\ Count(shutdownCalls, "destroy") = (IF window # NULL THEN 1 ELSE 0)
        /\ Count(shutdownCalls, "quit") <= 1
        /\ (initDone /\ initResult = 0) => Count(shutdownCalls, "quit") = 1

\* the adapter request was made and returned no adapter
AdapterAbsent ==
    /\ initDone
    /\ failure # "init"
    /\ pc # "adapter"
    /\ ~adapter
\* createWindow was called and SDL_CreateWindow returned null
WindowNull == device /\ pc # "createWindow" /\ window = NULL
\* the window-manager-info query was made and reported failure
WmInfoFailed == wmQueried /\ wmOk = 0
\* no step from the surface on was executed and the process has ended
NoLaterStep ==
    /\ pc = "exited"
    /\ surface = NoSurface
    /\ nResize = 0 /\ nConfigure = 0
    /\ ~rendererReady /\ ~hookRegistered /\ ~declared /\ ~loopEntered
    /\ shutdownCalls = <<>>

\* C10: when the adapter is absent, the window handle is null or the
\* window-manager-info query fails, startup stops there: no later startup
\* step runs (no window after a missing adapter, no query after a null
\* window, no surface, no resize, no configure) and the loop is not entered.
C10_FailedStepAbortsStartup ==
    /\ AdapterAbsent => (NoLaterStep /\ ~device /\ window = NULL /\ ~wmQueried)
    /\ WindowNull => (NoLaterStep /\ ~wmQueried)
    /\ WmInfoFailed => NoLaterStep

\* the query failed for a window that had been created
C10_Witness == WmInfoFailed /\ window # NULL /\ pc = "exited" /\ failure = "wminfo"

\* the entries of a pass trace that are results of poll calls
IsPollEntry(e) == e \in {"event", "quit", "empty", "pollThrow"}
\* the positions of the yields in a pass trace
YieldsAt(t) == {i \in DOMAIN t : t[i] = "yield"}

C12_ConfiguredOnceBeforeLoop ==
    /\ nResize <= 1 /\ nConfigure <= 1
    /\ nConfigure = 1 => nResize = 1
    /\ (declared \/ loopEntered \/ passTrace # <<>>) =>
           (nResize = 1 /\ nConfigure = 1)

\* the loop has presented a frame, with one resize and one configure behind it
C12_Witness ==
    /\ loopEntered
    /\ "present" \in Range(passTrace)
    /\ nResize = 1 /\ nConfigure = 1

\* C13: for every valid (OS, discriminant) pair the surface is built from the
\* fields at the documented byte offsets of the record the query filled, with
\* 8-byte pointers: the discriminant at 4; on macOS the view at 8; on Windows
\* the window at 8 and the instance at 8 + 8 + 8; on Linux the display at 8
\* and the surface/window at 8 + 8.  The event type is read at offset 0 of the
\* event record: the record of the event that stopped the loop holds the quit
\* tag there, the record of an event the drain went on from does not.
C13_FieldsAtDocumentedOffsets ==
    LET ptr == 8
        base == 8
    IN  /\ (surface # NoSurface /\ ValidPair(os, wmInfoBuf[4])) =>
            /\ surface.system = SystemOf(os, wmInfoBuf[4])
            /\ os = "darwin" =>
                   /\ surface.windowHandle = wmInfoBuf[base]
                   /\ surface.displayHandle = metalView
            /\ os = "windows" =>
                   /\ surface.windowHandle = wmInfoBuf[base]
                   /\ surface.displayHandle = wmInfoBuf[base + ptr + 8]
            /\ os = "linux" =>
                   /\ surface.displayHandle = wmInfoBuf[base]
                   /\ surface.windowHandle = wmInfoBuf[base + ptr]
        /\ quitSeen => eventBuf[0] = SDL_QUIT
        /\ (pc = "poll" /\ passTrace # <<>>) => eventBuf[0] # SDL_QUIT

\* a win32 surface built from a record whose three pointer fields differ, in a
\* run that has also read a quit event
C13_Witness ==
    /\ os = "windows"
    /\ surface.system = "win32"
    /\ surface.windowHandle = wmInfoBuf[8]
    /\ surface.displayHandle = wmInfoBuf[24]
    /\ wmInfoBuf[8] # wmInfoBuf[16] /\ wmInfoBuf[16] # wmInfoBuf[24]
    /\ quitSeen
    /\ eventBuf[0] = SDL_QUIT /\ eventBuf[4] # SDL_QUIT

\* the results of the poll calls of a pass, in order
Polls(t) == SelectSeq(t, IsPollEntry)
LastOf(t) == t[Len(t)]
\* what both modes show of the event pump and the shutdown
pumpObs == <<Polls(passTrace), running, shutdownCalls, pc = "exited">>

\* One pump for both modes, driven by the poll results alone: a pass polls
\* until a result is "empty" or "quit"; after "empty" the next pass begins;
\* "quit" stops the loop; a stopped loop calls destroy-window, library-quit and
\* ends the process.  No step of it depends on the mode, on a render or on a
\* present.
PumpStep ==
    LET p == Polls(passTrace)
        q == Polls(passTrace')
    IN  \/ /\ running /\ running'
           /\ p # <<>> /\ LastOf(p) = "empty"
           /\ q = <<>>
           /\ UNCHANGED shutdownCalls /\ pc' # "exited"
        \/ /\ running
           /\ p = <<>> \/ LastOf(p) = "event"
           /\ \E r \in {"event", "empty", "quit"} :
                 /\ q = Append(p, r)
                 /\ running' = (r # "quit")
           /\ UNCHANGED shutdownCalls /\ pc' # "exited"
        \/ /\ ~running /\ ~running'
           /\ p # <<>> /\ LastOf(p) = "quit" /\ q = p
           /\ \/ shutdownCalls = <<>> /\ shutdownCalls' = <<"destroy">> /\ pc' # "exited"
              \/ shutdownCalls = <<"destroy">> /\ shutdownCalls' = Shutdown /\ pc' # "exited"
              \/ shutdownCalls = Shutdown /\ UNCHANGED shutdownCalls /\ pc' = "exited"

\* C14: once the loop flag is declared, every step of either mode that
\* changes the poll results of the pass, the flag, the shutdown calls or the
\* end of the process is a step of that one pump: for the same poll results
\* the two modes make the same poll calls, stop at the same event and make
\* the same destroy-window and library-quit calls.
C14_SamePumpAndShutdown ==
    [][declared => (PumpStep \/ UNCHANGED pumpObs)]_vars

\* C15: the loop flag is a boolean; once declared and false it never becomes
\* true again; it goes from true to false only in a step that dequeues a quit
\* event or in which a poll or a present throws, never on a non-quit event or
\* an empty queue; and it is written only at its declaration and by steps of
\* the loop (a poll of the drain, or the frame presenter during the sleep).
C15_LoopStateTransitions ==
    [][ /\ running' \in BOOLEAN
        /\ (declared /\ ~running) => ~running'
        /\ (declared /\ running /\ ~running') =>
              \/ /\ pc = "poll"
                 /\ queue # <<>> /\ Head(queue) = SDL_QUIT
                 /\ queue' = Tail(queue)
              \/ /\ pc = "poll"
                 /\ passTrace' = Append(passTrace, "pollThrow")
              \/ /\ pc = "sleep"
                 /\ presentFailed' /\ ~presentFailed
        /\ running' # running => pc \in {"declare", "poll", "sleep"}
      ]_vars

\* the flag has stopped on a quit event and the loop has not yet left
C15_Witness ==
    /\ declared /\ ~running
    /\ stopCause = "quit"
    /\ pc \in {"render", "sleep"}

\* C16: once a quit event has been dequeued the loop is never again at a poll
\* call, the pass records no further poll result, and the queue is only ever
\* appended to: the events behind the quit event stay in it.
C16_NoPollAfterQuit ==
    [][quitSeen =>
          /\ pc # "poll" /\ pc' # "poll"
          /\ Polls(passTrace') = Polls(passTrace)
          /\ LastOf(Polls(passTrace)) = "quit"
          /\ Len(queue') >= Len(queue)
          /\ SubSeq(queue', 1, Len(queue)) = queue
      ]_vars

\* the process has ended after a quit event, with an event still queued
C16_Witness ==
    /\ quitSeen
    /\ queue # <<>>
    /\ pc = "exited"
    /\ shutdownCalls = Shutdown

---------------------------------------------------------------------------
(* Liveness *)

\* The top-level code is one sequential thread: a step of it that can be taken
\* is taken (no call of the loop blocks forever, the sleep timer fires).  The
\* environment owes nothing: no event need arrive, no frame need be drawn.
FairSpec ==
    /\ Spec
    /\ WF_vars(LoopCheck)
    /\ WF_vars(Poll \/ PollThrows)
    /\ WF_vars(Render)
    /\ WF_vars(Present)
    /\ WF_vars(Yield)
    /\ WF_vars(Wake)
    /\ WF_vars(DestroyWindow)
    /\ WF_vars(SdlQuit)
    /\ WF_vars(ProcessExit)

\* C17: once the loop flag is declared (startup succeeded) and a quit event
\* is in the queue, the loop eventually stops and the shutdown completes:
\* destroy-window and library-quit have been called and the process has
\* ended; and the loop is only ever stopped after a quit event or an error.
C17_QuitLeadsToShutdown ==
    /\ (declared /\ HasQuit(queue)) ~>
           (~running /\ shutdownCalls = Shutdown /\ pc = "exited")
    /\ [](declared /\ ~running =>
             quitSeen \/ presentFailed \/ "pollThrow" \in Range(passTrace))

---------------------------------------------------------------------------

Presents(t) == Count(t, "present") + Count(t, "presentThrow")

\* C18: no step taken after destroy-window was called is a present call, in
\* either mode: the frame presenter can run only while the loop sleeps, and
\* the imperative loop presents only inside its body.
C18_NoPresentAfterDestroy ==
    [][("destroy" \in Range(shutdownCalls) \/ pc \in {"destroy", "quit", "exit", "exited"})
          => Presents(passTrace') = Presents(passTrace)]_vars

\* the declarative loop presented a frame and has since destroyed the window
C18_Witness ==
    /\ mode = "r3f"
    /\ "present" \in Range(passTrace)
    /\ "destroy" \in Range(shutdownCalls)

\* C19: a step in which a frame callback runs the after-effect is taken only
\* once the loop flag is declared; from the registration of the after-effect
\* to the declaration the top-level code is at the declaration and its next
\* step is the declaration itself, so nothing can run in between; and the
\* flag is not written before it is declared.
C19_HookAfterDeclaration ==
    [][ /\ framesThisSleep' # framesThisSleep /\ framesThisSleep' > 0 => declared
        /\ (hookRegistered /\ ~declared) =>
              /\ pc = "declare"
              /\ pc' # pc => declared'
              /\ passTrace' = <<>> /\ framesThisSleep' = 0
        /\ (~declared /\ running' # running) => pc = "declare"
      ]_vars

\* the after-effect ran, after the declaration, and wrote the flag
C19_Witness ==
    /\ mode = "r3f"
    /\ hookRegistered /\ declared
    /\ framesThisSleep = 1
    /\ presentFailed /\ ~running /\ stopCause = "presentError"

\* C20: once SDL_Init has returned a non-zero status the startup is aborted:
\* the process has ended, no window was created and the loop was not entered.
C20_InitFailureAborts ==
    (initDone /\ initResult # 0) =>
        (pc = "exited" /\ window = NULL /\ ~declared /\ ~loopEntered)

=============================================================================
